---- MODULE Spec2Model ----
(***************************************************************************)
(* Roblox Friends Tracker (run.py): one process invocation authenticates,  *)
(* pages through the friend list, enriches it in batches, diffs it against *)
(* the persisted snapshot, appends to the activity log and persists the    *)
(* new snapshot.  The files survive from one invocation to the next.       *)
(***************************************************************************)
EXTENDS Integers, Sequences, FiniteSets, TLC

\* ---------------------------------------------------------------- bounds
MaxId == 2
MaxPages == 2
MaxPageItems == 1
Max429 == 3
MaxRuns == 2
MaxSaveLen == 6
MaxDetailIds == 120

\* ------------------------------------------------------ program constants
BATCH_SIZE == 50
MAX_RETRIES == 3
RATE_LIMIT_DELAY == 5

VARIABLES
  pc,           \* position of the script
  exitCode,     \* -1 while running, else the process exit code
  console,      \* set of messages printed by log() in this invocation
  runs,         \* number of invocations started so far
  jsonFile,     \* <username>_friends.json
  csvFile,      \* <username>_friends.csv
  logFile,      \* <username>_activity_log.txt
  json0,        \* the three files as they were when this invocation started
  csv0,
  log0,
  prev_data,    \* the invocation before this one: the enriched list it
                \* obtained, and whether all its writes went through
  all_friends,  \* fetch_friend_ids: accumulated items
  cursor,       \* fetch_friend_ids: cursor (NoCursor is None / empty)
  requests,     \* the GETs of this fetch, in order: cursor sent, answer received
  served,       \* the 200 pages answered to this fetch, in order
  n429,         \* number of 429 answers to the request being retried
  raw_friends,  \* __main__: value returned by fetch_friend_ids
  local_data,   \* fetch_user_details: prior snapshot indexed by id
  user_ids,     \* fetch_user_details: ids of the friends, in order
  fetched_map,  \* fetch_user_details: id -> fresh name
  i,            \* fetch_user_details: start offset of the current batch
  attempt,      \* fetch_user_details: attempt index of the current batch
  batches,      \* batches the loop has started, in order
  resps,        \* answers to the POSTs of the current batch: status, data
  sleeps,       \* sleeps taken between the POSTs of the current batch
  recovered,    \* fetch_user_details: names recovered from local history
  data,         \* __main__: value returned by fetch_user_details
  analysis      \* how analyze_changes ended in this invocation

vars == <<pc, exitCode, console, runs, jsonFile, csvFile, logFile, json0, csv0,
          log0, prev_data, all_friends, cursor, requests, served, n429, raw_friends,
          local_data, user_ids, fetched_map, i, attempt, batches,
          resps, sleeps, recovered, data, analysis>>

fileVars == <<jsonFile, csvFile, logFile>>
startVars == <<json0, csv0, log0, prev_data>>
fetchVars == <<all_friends, cursor, requests, served, n429>>
detailVars == <<local_data, user_ids, fetched_map, i, attempt,
                batches, resps, sleeps, recovered>>

\* ------------------------------------------------------------ data model
Ids == 1..MaxId
NoField == "<no name field>"
EmptyName == ""
Names == {"alice"}
Unknown == "<unknown id>"
NoCursor == ""

\* a friend entry: its id and its name field (NoField: the key is absent)
Rec(id, name) == [id |-> id, name |-> name]

\* not f.get('name')
Nameless(f) == f.name \in {NoField, EmptyName}

\* f.keys(): the raw entry has its id, enrichment adds the three name fields
Keys(f) == IF f.name = NoField THEN {"id"}
           ELSE {"id", "name", "displayName", "hasVerifiedBadge"}

AbsentFile == [state |-> "absent", recs |-> <<>>]
CorruptFile == [state |-> "corrupt", recs |-> <<>>]
FileOf(recs) == [state |-> "ok", recs |-> recs]

AbsentCsv == [state |-> "absent", hdr |-> {}, rows |-> <<>>]
CorruptCsv == [state |-> "corrupt", hdr |-> {}, rows |-> <<>>]

RECURSIVE SeqsUpTo(_, _)
SeqsUpTo(S, n) ==
  IF n = 0 THEN {<<>>}
  ELSE LET shorter == SeqsUpTo(S, n - 1)
       IN shorter \cup {Append(s, x) : s \in {t \in shorter : Len(t) = n - 1}, x \in S}

Range(s) == {s[k] : k \in 1..Len(s)}
EmptyMap == [x \in {} |-> NoField]

\* ------------------------------------------------------------------ Init
\* no invocation before this one got as far as an enriched list
NoPrevRun == [ran |-> FALSE, list |-> <<>>, clean |-> TRUE]

\* the messages of a failed write
IoErrors ==
  {"ERROR Log write failed", "ERROR Failed to save JSON", "ERROR Failed to save CSV"}

RunLocalInit ==
  /\ all_friends = <<>> /\ cursor = NoCursor /\ requests = <<>>
  /\ served = <<>> /\ n429 = 0
  /\ raw_friends = [none |-> TRUE, list |-> <<>>]
  /\ local_data = EmptyMap /\ user_ids = <<>>
  /\ fetched_map = EmptyMap /\ i = 0 /\ attempt = 0 /\ batches = <<>>
  /\ resps = <<>> /\ sleeps = <<>> /\ recovered = 0
  /\ data = <<>> /\ analysis = "none"

\* the files of an account: none before the first run, or those an earlier
\* pair of runs (friend 2, then friend 1 instead) has left behind
LogLine(kind, uid) == [kind |-> kind, id |-> uid]

FreshInstall ==
  /\ jsonFile = AbsentFile /\ csvFile = AbsentCsv /\ logFile = <<>>

EstablishedInstall ==
  /\ jsonFile = FileOf(<<Rec(1, "alice")>>)
  /\ csvFile = [state |-> "ok", hdr |-> Keys(Rec(1, "alice")),
                rows |-> <<Rec(1, "alice")>>]
  /\ logFile = <<LogLine("UNFRIENDED", 2), LogLine("NEW FRIEND", 1)>>

Init ==
  /\ pc = "load_cookie" /\ exitCode = -1 /\ console = {} /\ runs = 1
  /\ FreshInstall \/ EstablishedInstall
  /\ json0 = jsonFile /\ csv0 = csvFile /\ log0 = logFile
  /\ prev_data = NoPrevRun
  /\ RunLocalInit

\* sys.exit(code), or falling off the end of the script (code 0)
Exit(code) == pc' = "done" /\ exitCode' = code

Log(msg) == console' = console \cup {msg}

\* ---------------------------------------------------------- load_cookie
\* cookie = load_cookie(); if not cookie: log(EXIT); sys.exit(1)
LoadCookie ==
  /\ pc = "load_cookie"
  /\ \E cookie \in {"", "token"} :
       IF cookie = ""
       THEN Log("EXIT Process terminated") /\ Exit(1)
       ELSE pc' = "auth" /\ UNCHANGED <<exitCode, console>>
  /\ UNCHANGED <<runs, fileVars, startVars, fetchVars, raw_friends,
                 detailVars, data, analysis>>

\* -------------------------------------------------------- get_auth_user
\* uid, username = get_auth_user(cookie); if not uid: sys.exit(1)
GetAuthUser ==
  /\ pc = "auth"
  /\ \E outcome \in {"200", "other", "exception"} :
       CASE outcome = "200" ->
              Log("INFO User") /\ pc' = "fetch" /\ UNCHANGED exitCode
         [] outcome = "other" ->
              Log("ERROR Auth failed") /\ Exit(1)
         [] outcome = "exception" ->
              Log("ERROR Connection error") /\ Exit(1)
  /\ UNCHANGED <<runs, fileVars, startVars, fetchVars, raw_friends,
                 detailVars, data, analysis>>

\* ------------------------------------------------------ fetch_friend_ids
\* what a 200 page may carry: items and NextCursor (an opaque token)
\* a page lists raw entries (id only), no id twice on one page; the same id
\* may still come back on a later page
PageItems ==
  {p \in SeqsUpTo({Rec(id, NoField) : id \in Ids}, MaxPageItems) :
     \A k, m \in 1..Len(p) : k # m => p[k] # p[m]}
Cursors == {"A", "B"}

\* params["cursor"] of a request: the cursor when there is one
Params(c) == c

\* the page put in front of the accumulated list instead of behind it
FriendsAfter_Prepend(status, friends, items) ==
  IF status = "200" THEN items \o friends ELSE friends

\* all_friends after an answer: a 200 page appends its items
FriendsAfter(status, friends, items) ==
  IF status = "200" THEN friends \o items ELSE friends

\* a retry that starts over from the first page
CursorAfter_Restart(status, cur, next) ==
  IF status = "200" THEN next ELSE NoCursor

\* cursor after an answer: a 200 page sets it to the page's NextCursor, every
\* other answer leaves it alone
CursorAfter(status, cur, next) ==
  IF status = "200" THEN next ELSE cur

\* one iteration of the while True loop: one GET and the handling of its answer
FetchPage ==
  /\ pc = "fetch"
  /\ \E status \in {"200", "429", "other", "exception"} :
       /\ requests' = Append(requests, [cursor |-> Params(cursor), status |-> status])
       /\ CASE status = "200" ->
                 \E items \in PageItems, next \in {NoCursor} \cup Cursors :
                   /\ Len(served) + 1 >= MaxPages => next = NoCursor
                   /\ served' = Append(served, [items |-> items, next |-> next])
                   /\ all_friends' = FriendsAfter(status, all_friends, items)
                   /\ cursor' = CursorAfter(status, cursor, next)
                   /\ pc' = IF cursor' = NoCursor THEN "fetch_exit" ELSE "fetch"
                   /\ n429' = 0
                   /\ UNCHANGED console
            [] status = "429" ->
                 /\ n429 < Max429
                 /\ n429' = n429 + 1
                 /\ Log("WARN Rate limit (429)")
                 /\ all_friends' = FriendsAfter(status, all_friends, <<>>)
                 /\ cursor' = CursorAfter(status, cursor, NoCursor)
                 /\ UNCHANGED <<served, pc>>
            [] status = "other" ->
                 /\ Log("ERROR Error fetching list")
                 /\ pc' = "fetch_exit"
                 /\ UNCHANGED <<all_friends, cursor, served, n429>>
            [] status = "exception" ->
                 /\ Log("ERROR Network error while fetching friends")
                 /\ pc' = "fetch_exit"
                 /\ UNCHANGED <<all_friends, cursor, served, n429>>
  /\ UNCHANGED <<exitCode, runs, fileVars, startVars, raw_friends,
                 detailVars, data, analysis>>

\* log("Found ..."); return all_friends; then in __main__:
\* if raw_friends is None: log(STOP); sys.exit(1)
FetchReturn ==
  /\ pc = "fetch_exit"
  /\ LET ret == [none |-> FALSE, list |-> all_friends]
     IN /\ raw_friends' = ret
        /\ IF ret.none
           THEN Log("STOP API Error. Halting") /\ Exit(1)
           ELSE pc' = "details" /\ UNCHANGED <<exitCode, console>>
  /\ all_friends' = <<>> /\ cursor' = NoCursor /\ requests' = <<>>
  /\ served' = <<>> /\ n429' = 0
  /\ UNCHANGED <<runs, fileVars, startVars, detailVars, data, analysis>>

\* --------------------------------------------------- load_local_history
\* the list in <username>_friends.json, or [] when it is missing or unreadable
load_local_history(file) == IF file.state = "ok" THEN file.recs ELSE <<>>

\* {u['id']: u for u in lst}: a later entry replaces an earlier one of the same id
IndexById(lst) ==
  [id \in {lst[k].id : k \in 1..Len(lst)} |->
     lst[CHOOSE k \in 1..Len(lst) :
           /\ lst[k].id = id
           /\ \A m \in (k + 1)..Len(lst) : lst[m].id # id]]

\* ---------------------------------------------------- fetch_user_details
Min(a, b) == IF a <= b THEN a ELSE b

\* a slice one element short
Batch_Short(ids, start) == SubSeq(ids, start + 1, Min(start + BATCH_SIZE - 1, Len(ids)))

\* user_ids[start:start + BATCH_SIZE], start counted from 0
Batch(ids, start) == SubSeq(ids, start + 1, Min(start + BATCH_SIZE, Len(ids)))

\* the same wait before every retry
Backoff_Constant(a) == RATE_LIMIT_DELAY

\* wait = (attempt + 1) * RATE_LIMIT_DELAY
Backoff(a) == (a + 1) * RATE_LIMIT_DELAY

\* what the bulk-detail endpoint may know of each id: nothing, a record whose
\* name is empty, or a record with a name.  Every combination is drawn for
\* the ids of Ids; a longer batch is known as a whole, by halves, or not at all
Directories(ids) ==
  IF ids \subseteq Ids
  THEN [ids -> {Unknown, EmptyName} \cup Names]
  ELSE {[id \in ids |-> "alice"],
        [id \in ids |-> IF id % 2 = 0 THEN "alice" ELSE Unknown],
        [id \in ids |-> Unknown]}

\* resp.json().get('data', []): id -> name of the entries the endpoint returns
Replies(batch) ==
  {[id \in {x \in DOMAIN d : d[x] # Unknown} |-> d[id]] : d \in Directories(Range(batch))}

\* if not friends: return []; else load the fallback and set up the batch loop
StartDetails ==
  /\ pc = "details"
  /\ IF raw_friends.list = <<>>
     THEN /\ data' = <<>>
          /\ pc' = "analyze"
          /\ UNCHANGED <<console, local_data, user_ids, fetched_map, i, attempt>>
     ELSE /\ Log("INFO Fetching user details")
          /\ local_data' = IndexById(load_local_history(jsonFile))
          /\ user_ids' = [k \in 1..Len(raw_friends.list) |-> raw_friends.list[k].id]
          /\ fetched_map' = EmptyMap
          /\ i' = 0
          /\ attempt' = 0
          /\ pc' = "post"
          /\ UNCHANGED data
  /\ UNCHANGED <<exitCode, runs, fileVars, startVars, fetchVars, raw_friends,
                 batches, resps, sleeps, recovered, analysis>>

\* one pass of "for attempt in range(MAX_RETRIES)": one POST of the current
\* batch and the handling of its answer
PostBatch ==
  /\ pc = "post"
  /\ LET batch == Batch(user_ids, i)
         first == attempt = 0
         nextBatch ==
           /\ i' = i + BATCH_SIZE
           /\ attempt' = 0
           /\ pc' = IF i + BATCH_SIZE < Len(user_ids) THEN "post" ELSE "merge"
         nextAttempt ==
           IF attempt + 1 < MAX_RETRIES
           THEN attempt' = attempt + 1 /\ UNCHANGED <<i, pc>>
           ELSE nextBatch
     IN /\ batches' = IF first THEN Append(batches, batch) ELSE batches
        /\ \E status \in {"200", "429", "other", "exception"} :
             /\ CASE status = "200" ->
                       /\ \E reply \in Replies(batch) :
                            /\ fetched_map' = reply @@ fetched_map
                            /\ resps' = Append(IF first THEN <<>> ELSE resps,
                                               [status |-> status, data |-> reply])
                       /\ sleeps' = IF first THEN <<>> ELSE sleeps
                       /\ nextBatch
                       /\ UNCHANGED console
                  [] status = "429" ->
                       /\ resps' = Append(IF first THEN <<>> ELSE resps,
                                          [status |-> status, data |-> EmptyMap])
                       /\ Log("WARN Rate limit on batch")
                       /\ sleeps' = Append(IF first THEN <<>> ELSE sleeps,
                                           Backoff(attempt))
                       /\ nextAttempt
                       /\ UNCHANGED fetched_map
                  [] status = "other" ->
                       /\ resps' = Append(IF first THEN <<>> ELSE resps,
                                          [status |-> status, data |-> EmptyMap])
                       /\ sleeps' = IF first THEN <<>> ELSE sleeps
                       /\ nextBatch
                       /\ UNCHANGED <<fetched_map, console>>
                  [] status = "exception" ->
                       /\ resps' = Append(IF first THEN <<>> ELSE resps,
                                          [status |-> status, data |-> EmptyMap])
                       /\ sleeps' = Append(IF first THEN <<>> ELSE sleeps, 1)
                       /\ nextAttempt
                       /\ UNCHANGED <<fetched_map, console>>
  /\ UNCHANGED <<exitCode, runs, fileVars, startVars, fetchVars, raw_friends,
                 local_data, user_ids, recovered, data, analysis>>

\* a merge without the local-history fallback
Merged_NoFallback(f) ==
  IF f.id \in DOMAIN fetched_map THEN Rec(f.id, fetched_map[f.id]) ELSE f

\* the local history preferred to the fresh detail
Merged_LocalFirst(f) ==
  IF f.id \in DOMAIN local_data /\ ~Nameless(local_data[f.id])
  THEN Rec(f.id, local_data[f.id].name)
  ELSE IF f.id \in DOMAIN fetched_map
       THEN Rec(f.id, fetched_map[f.id])
       ELSE f

\* the entry of friend f after the merge: API data > local history > raw
Merged(f) ==
  IF f.id \in DOMAIN fetched_map
  THEN Rec(f.id, fetched_map[f.id])
  ELSE IF f.id \in DOMAIN local_data /\ ~Nameless(local_data[f.id])
       THEN Rec(f.id, local_data[f.id].name)
       ELSE f

\* the entries the merge takes from the local history
Recovered(friends) ==
  {k \in 1..Len(friends) :
     /\ friends[k].id \notin DOMAIN fetched_map
     /\ friends[k].id \in DOMAIN local_data
     /\ ~Nameless(local_data[friends[k].id])}

\* a final list that keeps only the entries that got a name
FinalList_NamedOnly(friends) ==
  SelectSeq([k \in 1..Len(friends) |-> Merged(friends[k])], LAMBDA f : ~Nameless(f))

\* final_list: for f in friends: (update f); final_list.append(f)
FinalList(friends) == [k \in 1..Len(friends) |-> Merged(friends[k])]

\* the merge loop building final_list, and the "Recovered" message
MergeDetails ==
  /\ pc = "merge"
  /\ data' = FinalList(raw_friends.list)
  /\ recovered' = Cardinality(Recovered(raw_friends.list))
  /\ IF recovered' # 0 THEN Log("WARN Recovered names from local history")
     ELSE UNCHANGED console
  /\ pc' = "merged"
  /\ UNCHANGED <<exitCode, runs, fileVars, startVars, fetchVars, raw_friends,
                 local_data, user_ids, fetched_map, i, attempt, batches,
                 resps, sleeps, analysis>>

\* return final_list: the locals of fetch_user_details are gone
DetailsReturn ==
  /\ pc = "merged"
  /\ pc' = "analyze"
  /\ local_data' = EmptyMap /\ user_ids' = <<>> /\ fetched_map' = EmptyMap
  /\ i' = 0 /\ attempt' = 0 /\ batches' = <<>> /\ resps' = <<>>
  /\ sleeps' = <<>> /\ recovered' = 0
  /\ UNCHANGED <<exitCode, console, runs, fileVars, startVars, fetchVars,
                 raw_friends, data, analysis>>

\* ------------------------------------------------------- analyze_changes
\* the ids of a set in the order the report walks them
RECURSIVE Ascending(_)
Ascending(S) ==
  IF S = {} THEN <<>>
  ELSE LET m == CHOOSE x \in S : \A y \in S : x <= y
       IN <<m>> \o Ascending(S \ {m})

\* sum(1 for f in lst if not f.get('name'))
CountNameless(lst) == Cardinality({k \in 1..Len(lst) : Nameless(lst[k])})

\* the guard with the comparison turned into >=
AnalysisGuard_AtLeast(lst) == Len(lst) > 0 /\ 2 * CountNameless(lst) >= Len(lst)

\* len(current_list) > 0 and (empty_names / len(current_list)) > 0.5
AnalysisGuard(lst) == Len(lst) > 0 /\ 2 * CountNameless(lst) > Len(lst)

\* the difference taken the wrong way round
Unfriended_Swapped(old_list, current_list) ==
  DOMAIN IndexById(current_list) \ DOMAIN IndexById(old_list)

\* unfriended = old_ids - cur_ids
Unfriended(old_list, current_list) ==
  DOMAIN IndexById(old_list) \ DOMAIN IndexById(current_list)

\* every current friend taken for a new one
NewFriends_All(old_list, current_list) == DOMAIN IndexById(current_list)

\* new_friends = cur_ids - old_ids
NewFriends(old_list, current_list) ==
  DOMAIN IndexById(current_list) \ DOMAIN IndexById(old_list)

\* the list "logs": removal lines first, then addition lines
ReportLines(old_list, current_list) ==
  LET lost == Ascending(Unfriended(old_list, current_list))
      new == Ascending(NewFriends(old_list, current_list))
  IN [k \in 1..Len(lost) |-> LogLine("UNFRIENDED", lost[k])]
     \o [k \in 1..Len(new) |-> LogLine("NEW FRIEND", new[k])]

\* the log opened with "w" instead of "a"
AppendLines_Truncating(file, lines) == lines

\* open(log_file, "a"); f.writelines(logs)
AppendLines(file, lines) == file \o lines

AnalyzeChanges ==
  /\ pc = "analyze"
  /\ pc' = "save"
  /\ IF AnalysisGuard(data)
     THEN /\ Log("SKIP Too many missing names")
          /\ analysis' = "skipped"
          /\ UNCHANGED logFile
     ELSE IF jsonFile.state = "absent"
     THEN /\ analysis' = "no_snapshot"
          /\ UNCHANGED <<logFile, console>>
     ELSE IF jsonFile.state = "corrupt"
     THEN /\ analysis' = "unreadable"
          /\ UNCHANGED <<logFile, console>>
     ELSE IF /\ Unfriended(jsonFile.recs, data) = {}
             /\ NewFriends(jsonFile.recs, data) = {}
     THEN /\ Log("INFO No changes detected")
          /\ analysis' = "no_changes"
          /\ UNCHANGED logFile
     ELSE \E writable \in BOOLEAN :
            IF writable
            THEN /\ logFile' = AppendLines(logFile, ReportLines(jsonFile.recs, data))
                 /\ console' = console \cup {"ACTIVITY REPORT", "INFO Activity log updated"}
                 /\ analysis' = "reported"
            ELSE /\ console' = console \cup {"ACTIVITY REPORT", "ERROR Log write failed"}
                 /\ analysis' = "log_failed"
                 /\ UNCHANGED logFile
  /\ UNCHANGED <<exitCode, runs, jsonFile, csvFile, startVars, fetchVars,
                 raw_friends, detailVars, data>>

\* --------------------------------------------------------- save_database
\* a store that never vetoes
SaveGuard_Off(friends) == FALSE

\* the guard with the comparison turned into >=
SaveGuard_AtLeast(friends) == Len(friends) > 0 /\ 5 * CountNameless(friends) >= Len(friends)

\* len(friends) > 0 and (invalid_count / len(friends)) > 0.2
SaveGuard(friends) == Len(friends) > 0 /\ 5 * CountNameless(friends) > Len(friends)

\* DictWriter row: a missing or None field is written as the empty string
CsvRow(hdr, f) ==
  [id |-> f.id, name |-> IF "name" \in hdr /\ ~Nameless(f) THEN f.name ELSE ""]

\* number of rows written before DictWriter meets a row with a field that is
\* not in fieldnames (ValueError); all of them when there is none
RowsWritten(friends) ==
  LET bad == {k \in 1..Len(friends) : ~(Keys(friends[k]) \subseteq Keys(friends[1]))}
  IN IF bad = {} THEN Len(friends)
     ELSE (CHOOSE k \in bad : \A m \in bad : k <= m) - 1

CsvOf(friends, n) ==
  LET hdr == IF friends = <<>> THEN {} ELSE Keys(friends[1])
  IN [state |-> "ok", hdr |-> hdr,
      rows |-> [k \in 1..n |-> CsvRow(hdr, friends[k])]]

\* json.dump(friends, f): what the file holds after a write that may fail
\* at open (file untouched) or after the truncation (file unreadable)
JsonAfter(outcome, friends) ==
  CASE outcome = "ok" -> FileOf(friends)
    [] outcome = "open_failed" -> jsonFile
    [] outcome = "write_failed" -> CorruptFile

CsvAfter(outcome, friends) ==
  CASE outcome = "ok" -> CsvOf(friends, RowsWritten(friends))
    [] outcome = "open_failed" -> csvFile
    [] outcome = "write_failed" -> CorruptCsv

IoOutcomes == {"ok", "open_failed", "write_failed"}

\* a store without the early return
NothingToSave_Never(friends) == FALSE

\* if not friends: return
NothingToSave(friends) == friends = <<>>

\* save_database(data, username), then the end of the script
SaveDatabase ==
  /\ pc = "save"
  /\ pc' = "done"
  /\ IF NothingToSave(data)
     THEN /\ exitCode' = 0
          /\ UNCHANGED <<jsonFile, csvFile, console>>
     ELSE IF SaveGuard(data)
     THEN /\ Log("PROTECTION Data corruption detected. Aborting save")
          /\ exitCode' = 0
          /\ UNCHANGED <<jsonFile, csvFile>>
     ELSE \E jsonIo \in IoOutcomes, csvIo \in IoOutcomes :
            LET valueError == csvIo = "ok" /\ RowsWritten(data) < Len(data)
            IN /\ jsonFile' = JsonAfter(jsonIo, data)
               /\ csvFile' = CsvAfter(csvIo, data)
               /\ console' = console
                    \cup (IF jsonIo = "ok" THEN {} ELSE {"ERROR Failed to save JSON"})
                    \cup (IF csvIo = "ok"
                          THEN IF valueError THEN {"Traceback ValueError"}
                               ELSE {"INFO Database updated"}
                          ELSE {"ERROR Failed to save CSV"})
               /\ exitCode' = IF valueError THEN 1 ELSE 0
  /\ UNCHANGED <<runs, logFile, startVars, fetchVars, raw_friends, detailVars,
                 data, analysis>>

\* ------------------------------------------------------ next invocation
\* the tool is started again: fresh process, same files
NextRun ==
  /\ pc = "done"
  /\ runs < MaxRuns
  /\ runs' = runs + 1
  /\ pc' = "load_cookie" /\ exitCode' = -1 /\ console' = {}
  /\ json0' = jsonFile /\ csv0' = csvFile /\ log0' = logFile
  /\ prev_data' = [ran |-> analysis # "none", list |-> data,
                    clean |-> console \cap IoErrors = {}]
  /\ all_friends' = <<>> /\ cursor' = NoCursor /\ requests' = <<>>
  /\ served' = <<>> /\ n429' = 0
  /\ raw_friends' = [none |-> TRUE, list |-> <<>>]
  /\ local_data' = EmptyMap /\ user_ids' = <<>>
  /\ fetched_map' = EmptyMap /\ i' = 0 /\ attempt' = 0 /\ batches' = <<>>
  /\ resps' = <<>> /\ sleeps' = <<>> /\ recovered' = 0
  /\ data' = <<>> /\ analysis' = "none"
  /\ UNCHANGED fileVars

Next ==
  \/ LoadCookie
  \/ GetAuthUser
  \/ FetchPage
  \/ FetchReturn
  \/ StartDetails
  \/ PostBatch
  \/ MergeDetails
  \/ DetailsReturn
  \/ AnalyzeChanges
  \/ SaveDatabase
  \/ NextRun

Spec == Init /\ [][Next]_vars

\* --------------------------------------------------------------------
\* fetch_friend_ids alone, called by an authenticated run.
FetchInit ==
  /\ pc = "fetch" /\ exitCode = -1 /\ runs = MaxRuns
  /\ FreshInstall
  /\ json0 = jsonFile /\ csv0 = csvFile /\ log0 = logFile
  /\ prev_data = NoPrevRun
  /\ console = {"INFO User"}
  /\ RunLocalInit

FetchNext ==
  \/ FetchPage
  \/ FetchReturn

FetchSpec == FetchInit /\ [][FetchNext]_vars

\* --------------------------------------------------------------------
\* The tail of a run, from the enriched list on: analyze_changes and
\* save_database applied to lists of up to MaxSaveLen friends.
\* an account whose snapshot holds friend 1 and a friend who has since left
ChurnedInstall ==
  /\ jsonFile = FileOf(<<Rec(1, "alice"), Rec(MaxSaveLen + 1, "alice")>>)
  /\ csvFile = CsvOf(jsonFile.recs, 2)
  /\ logFile = <<LogLine("NEW FRIEND", 1), LogLine("NEW FRIEND", MaxSaveLen + 1)>>

SaveInputs ==
  UNION {{[k \in 1..n |-> Rec(k, nm[k])] : nm \in [1..n -> {NoField, EmptyName} \cup Names]}
         : n \in 0..MaxSaveLen}

SaveInit ==
  /\ pc = "analyze" /\ exitCode = -1 /\ runs = MaxRuns
  /\ FreshInstall \/ EstablishedInstall \/ ChurnedInstall
  /\ json0 = jsonFile /\ csv0 = csvFile /\ log0 = logFile
  /\ prev_data = NoPrevRun
  /\ data \in SaveInputs
  /\ raw_friends = [none |-> FALSE, list |-> [k \in 1..Len(data) |-> Rec(k, NoField)]]
  /\ console = {"INFO User"}
                 \cup (IF data = <<>> THEN {} ELSE {"INFO Fetching user details"})
  /\ analysis = "none"
  /\ all_friends = <<>> /\ cursor = NoCursor /\ requests = <<>>
  /\ served = <<>> /\ n429 = 0
  /\ local_data = EmptyMap /\ user_ids = <<>>
  /\ fetched_map = EmptyMap /\ i = 0 /\ attempt = 0 /\ batches = <<>>
  /\ resps = <<>> /\ sleeps = <<>> /\ recovered = 0

SaveNext ==
  \/ AnalyzeChanges
  \/ SaveDatabase

SaveSpec == SaveInit /\ [][SaveNext]_vars

\* --------------------------------------------------------------------
\* fetch_user_details applied to lists of up to MaxDetailIds friends.
\* a snapshot a first run has saved: one record in five without a name
LargeInstall ==
  /\ jsonFile = FileOf(<<Rec(1, "alice"), Rec(2, "alice"), Rec(3, "alice"),
                         Rec(4, "alice"), Rec(5, EmptyName)>>)
  /\ csvFile = CsvOf(jsonFile.recs, 5)
  /\ logFile = <<>>

DetailInit ==
  /\ pc = "details" /\ exitCode = -1 /\ runs = MaxRuns
  /\ FreshInstall \/ LargeInstall
  /\ json0 = jsonFile /\ csv0 = csvFile /\ log0 = logFile
  /\ prev_data = NoPrevRun
  /\ \E n \in 0..MaxDetailIds :
       raw_friends = [none |-> FALSE, list |-> [k \in 1..n |-> Rec(k, NoField)]]
  /\ console = {"INFO User"}
  /\ data = <<>> /\ analysis = "none"
  /\ all_friends = <<>> /\ cursor = NoCursor /\ requests = <<>>
  /\ served = <<>> /\ n429 = 0
  /\ local_data = EmptyMap /\ user_ids = <<>>
  /\ fetched_map = EmptyMap /\ i = 0 /\ attempt = 0 /\ batches = <<>>
  /\ resps = <<>> /\ sleeps = <<>> /\ recovered = 0

DetailNext ==
  \/ StartDetails
  \/ PostBatch
  \/ MergeDetails
  \/ DetailsReturn

DetailSpec == DetailInit /\ [][DetailNext]_vars

\* ====================================================================
\* Properties
\* ====================================================================
IdsOf(lst) == {lst[k].id : k \in 1..Len(lst)}

RECURSIVE Flatten(_)
Flatten(ss) == IF ss = <<>> THEN <<>> ELSE Head(ss) \o Flatten(Tail(ss))

IsPrefix(s, t) == Len(s) <= Len(t) /\ SubSeq(t, 1, Len(s)) = s

StrictlyIncreasing(s) == \A k \in 1..(Len(s) - 1) : s[k] < s[k + 1]

\* the run has gone through analyze_changes
Analysed == analysis # "none"

\* the run has gone through save_database
SaveRan == pc = "done" /\ Analysed

NoIoFailure ==
  console \cap {"ERROR Failed to save JSON", "ERROR Failed to save CSV"} = {}

FilesUntouched == jsonFile = json0 /\ csvFile = csv0

\* every record has only fields of the first record
SameFields(lst) == \A k \in 1..Len(lst) : Keys(lst[k]) \subseteq Keys(lst[1])

\* the export holds one row per record, in order
ExportComplete ==
  /\ csvFile.state = "ok"
  /\ Len(csvFile.rows) = Len(data)
  /\ \A k \in 1..Len(data) : csvFile.rows[k].id = data[k].id

\* the export stops before the first record with a field the first one lacks
ExportCutShort ==
  /\ csvFile.state = "ok"
  /\ Len(csvFile.rows) < Len(data)
  /\ \A k \in 1..Len(csvFile.rows) :
       csvFile.rows[k].id = data[k].id /\ Keys(data[k]) \subseteq Keys(data[1])
  /\ ~(Keys(data[Len(csvFile.rows) + 1]) \subseteq Keys(data[1]))

\* C1 as stated: for a list handed to save_database without I/O failure, a
\* nameless fraction below 0.2 has both files written, and a fraction of 0.2
\* or more has neither written and the persisted snapshot unchanged.
C1_AsStated ==
  (SaveRan /\ NoIoFailure /\ data # <<>>) =>
     /\ 5 * CountNameless(data) < Len(data) =>
          jsonFile = FileOf(data) /\ csvFile.state = "ok"
     /\ 5 * CountNameless(data) >= Len(data) => FilesUntouched

\* C1 amended: for a non-empty list handed to save_database without I/O
\* failure, a nameless fraction of at most 0.2 has the snapshot written with
\* the list and the export rewritten (every row when no record has a field
\* the first record lacks, else only the rows before the first such record,
\* the run ending on the uncaught ValueError); a fraction above 0.2 leaves
\* both files as they were.  An empty list writes nothing.
C1_SaveGuardThreshold ==
  (SaveRan /\ NoIoFailure) =>
     IF data = <<>> THEN FilesUntouched
     ELSE IF 5 * CountNameless(data) <= Len(data)
          THEN /\ jsonFile = FileOf(data)
               /\ IF SameFields(data)
                  THEN ExportComplete /\ exitCode = 0
                  ELSE ExportCutShort /\ exitCode = 1
          ELSE FilesUntouched /\ exitCode = 0

\* a list of five with exactly one nameless record has been saved
C1_Witness ==
  /\ SaveRan /\ NoIoFailure
  /\ Len(data) = 5 /\ CountNameless(data) = 1
  /\ jsonFile = FileOf(data) /\ ExportComplete
  /\ jsonFile # json0

\* C2 as stated: a current list with a nameless fraction of 0.5 or more
\* yields no change report and no line in the activity log; below 0.5 the
\* analysis proceeds.
C2_AsStated ==
  (Analysed /\ data # <<>>) =>
     /\ 2 * CountNameless(data) >= Len(data) =>
          "ACTIVITY REPORT" \notin console /\ logFile = log0
     /\ 2 * CountNameless(data) < Len(data) => analysis # "skipped"

\* C2 amended: a current list with a nameless fraction above 0.5 yields no
\* change report and no line in the activity log; at 0.5 or below the
\* analysis proceeds, to the diff whenever the previous snapshot is readable.
C2_AnalysisGuardThreshold ==
  (Analysed /\ data # <<>>) =>
     /\ 2 * CountNameless(data) > Len(data) =>
          /\ analysis = "skipped"
          /\ "ACTIVITY REPORT" \notin console
          /\ logFile = log0
     /\ 2 * CountNameless(data) <= Len(data) =>
          /\ analysis # "skipped"
          /\ json0.state = "ok" => analysis \in {"no_changes", "reported", "log_failed"}

\* half of the current list is nameless and a change report was appended
C2_Witness ==
  /\ analysis = "reported"
  /\ Len(data) = 2 /\ CountNameless(data) = 1
  /\ Len(logFile) > Len(log0)

FetchErrors ==
  {"ERROR Error fetching list", "ERROR Network error while fetching friends"}

FatalErrors ==
  {"EXIT Process terminated", "ERROR Auth failed", "ERROR Connection error"}
    \cup FetchErrors

\* C3: a run exits non-zero exactly when the credential is missing,
\* authentication fails or the friend-list fetch hits an unrecoverable
\* error; every other run exits zero.
C3_ExitCode ==
  pc = "done" => (exitCode # 0 <=> console \cap FatalErrors # {})

\* C4: when pagination ends on a non-200, non-429 status or a connection
\* error, enricher, analyzer and store do not run: at the end of that run
\* the activity log, the snapshot and the export are as they were.
C4_FetchErrorHalts ==
  (pc = "done" /\ console \cap FetchErrors # {}) =>
     /\ logFile = log0
     /\ FilesUntouched

\* the diff of analyze_changes has run
DiffRan == analysis \in {"no_changes", "reported", "log_failed"}

\* the lines this run has appended to the activity log
Appended == SubSeq(logFile, Len(log0) + 1, Len(logFile))

\* one removal line per id of O minus C, one addition line per id of C minus
\* O, nothing else; nothing at all and "no changes" when O = C
ExactReport(O, C) ==
  /\ IsPrefix(log0, logFile)
  /\ Len(Appended) = Cardinality(O \ C) + Cardinality(C \ O)
  /\ \A id \in O \ C :
       Cardinality({k \in 1..Len(Appended) : Appended[k] = LogLine("UNFRIENDED", id)}) = 1
  /\ \A id \in C \ O :
       Cardinality({k \in 1..Len(Appended) : Appended[k] = LogLine("NEW FRIEND", id)}) = 1
  /\ O = C => (logFile = log0 /\ "INFO No changes detected" \in console)

C6_AppendOnly == [][IsPrefix(logFile, logFile')]_vars

\* a run has appended lines behind the lines of earlier runs
C6_Witness == Len(log0) > 0 /\ Len(logFile) > Len(log0)

\* every GET of this fetch was answered 200
AllOk == \A k \in 1..Len(requests) : requests[k].status = "200"

\* C7: when every page request is answered 200 and n pages are served, the
\* last one without a next cursor, fetch_friend_ids issues exactly n
\* requests, the first without a cursor and each later one with the cursor
\* of the page before, and returns the items of the n pages in page order.
C7_Pagination ==
  (pc = "fetch_exit" /\ AllOk) =>
     /\ Len(requests) = Len(served)
     /\ Len(served) >= 1
     /\ served[Len(served)].next = NoCursor
     /\ requests[1].cursor = NoCursor
     /\ \A k \in 1..(Len(served) - 1) :
          served[k].next # NoCursor /\ requests[k + 1].cursor = served[k].next
     /\ all_friends = Flatten([k \in 1..Len(served) |-> served[k].items])

\* two pages with different friends have been fetched without any retry
C7_Witness ==
  /\ pc = "fetch_exit" /\ AllOk
  /\ Len(served) = 2
  /\ served[1].items # <<>> /\ served[2].items # <<>>
  /\ served[1].items # served[2].items

\* the GETs that were answered 200, in order
RECURSIVE OkRequests(_)
OkRequests(rs) ==
  IF rs = <<>> THEN <<>>
  ELSE (IF Head(rs).status = "200" THEN <<Head(rs)>> ELSE <<>>) \o OkRequests(Tail(rs))

\* C8: a 429 leaves cursor and accumulated list as they are and the next
\* request is the same request; whatever 429s come in between, the list is
\* the concatenation of the pages along the cursor chain, none skipped or
\* fetched twice.
C8_RateLimitRetry ==
  pc \in {"fetch", "fetch_exit"} =>
     /\ \A k \in 1..Len(requests) :
          requests[k].status = "429" =>
            IF k < Len(requests)
            THEN requests[k + 1].cursor = requests[k].cursor
            ELSE cursor = requests[k].cursor /\ pc = "fetch"
     /\ all_friends = Flatten([k \in 1..Len(served) |-> served[k].items])
     /\ LET oks == OkRequests(requests)
        IN /\ Len(oks) = Len(served)
           /\ \A k \in 1..Len(oks) :
                oks[k].cursor = IF k = 1 THEN NoCursor ELSE served[k - 1].next

\* the second page was rate limited and then fetched; both pages are in the list
C8_Witness ==
  /\ pc = "fetch_exit"
  /\ Len(requests) = 3
  /\ requests[1].status = "200" /\ requests[2].status = "429"
  /\ requests[3].status = "200"
  /\ Len(all_friends) = 2 /\ all_friends[1] # all_friends[2]

\* the GETs issued since the last page was served: the same request each time
SameRequestCount == Len(requests) - Len(served)

\* C9: retries are bounded in every component: neither the friend-id fetcher
\* nor the detail enricher issues the same request more than MAX_RETRIES
\* times.
C9_BoundedRetries ==
  /\ pc = "fetch" => SameRequestCount <= MAX_RETRIES
  /\ Len(resps) <= MAX_RETRIES

\* every answer in rs is a 429
AllRateLimited(rs) == \A k \in 1..Len(rs) : rs[k].status = "429"

\* C10: n identifiers go into ceil(n / 50) consecutive batches of at most 50,
\* every identifier in exactly one batch and in input order; a batch answered
\* 429 k times (k below the retry ceiling) and then 200 is posted k + 1 times
\* and no more, its results are merged, and the waits before the retries are
\* strictly increasing.
C10_Batching ==
  /\ pc = "merged" =>
       /\ Len(batches) = (Len(user_ids) + BATCH_SIZE - 1) \div BATCH_SIZE
       /\ \A b \in 1..Len(batches) : Len(batches[b]) \in 1..BATCH_SIZE
       /\ Flatten(batches) = user_ids
  /\ (pc = "analyze" /\ raw_friends.list = <<>>) => batches = <<>>
  /\ (pc = "post" /\ resps # <<>> /\ attempt > 0) =>
       \* the batch is being retried: same batch, one more attempt
       /\ attempt = Len(resps)
       /\ i = BATCH_SIZE * (Len(batches) - 1)
       /\ AllRateLimited(resps) => Len(sleeps) = Len(resps) /\ StrictlyIncreasing(sleeps)
  /\ (resps # <<>> /\ resps[Len(resps)].status = "200"
        /\ AllRateLimited(SubSeq(resps, 1, Len(resps) - 1))) =>
       \* k 429s, then 200: the loop has left the batch after k + 1 POSTs
       /\ Len(resps) <= MAX_RETRIES
       /\ attempt = 0
       /\ i = BATCH_SIZE * Len(batches)
       /\ Len(sleeps) = Len(resps) - 1
       /\ StrictlyIncreasing(sleeps)
       /\ \A id \in DOMAIN resps[Len(resps)].data :
            id \in DOMAIN fetched_map /\ fetched_map[id] = resps[Len(resps)].data[id]

\* 120 identifiers in three batches, the last one answered 429, 429, 200
C10_Witness ==
  /\ pc = "merged"
  /\ Len(user_ids) = 120
  /\ Len(batches) = 3 /\ Len(batches[3]) = 20
  /\ Len(resps) = 3
  /\ resps[1].status = "429" /\ resps[2].status = "429" /\ resps[3].status = "200"
  /\ sleeps = <<5, 10>>
  /\ DOMAIN fetched_map = 1..120

\* the names the snapshot this run started from holds for an id
PriorNames(id) ==
  IF json0.state # "ok" THEN {}
  ELSE {json0.recs[m].name : m \in {n \in 1..Len(json0.recs) :
                                      json0.recs[n].id = id /\ ~Nameless(json0.recs[n])}}

\* positions of the input whose id got no fresh detail but has a prior name
FromHistory ==
  {k \in 1..Len(raw_friends.list) :
     /\ raw_friends.list[k].id \notin DOMAIN fetched_map
     /\ PriorNames(raw_friends.list[k].id) # {}}

\* C11: after the merge step every entry whose id got fresh detail carries the
\* fresh name fields; every other entry whose id has a non-empty name in the
\* prior snapshot carries the prior name; every remaining entry stays without
\* name fields; the recovered count is the number of entries of the second
\* kind.
C11_MergePriority ==
  pc = "merged" =>
     /\ Len(data) = Len(raw_friends.list)
     /\ \A k \in 1..Len(data) :
          LET id == raw_friends.list[k].id
          IN IF id \in DOMAIN fetched_map
             THEN data[k] = Rec(id, fetched_map[id])
             ELSE IF PriorNames(id) # {}
                  THEN data[k].id = id /\ data[k].name \in PriorNames(id)
                  ELSE data[k] = raw_friends.list[k] /\ Keys(data[k]) = {"id"}
     /\ recovered = Cardinality(FromHistory)

\* one entry of each kind: fresh detail with an empty name over a prior name,
\* a name taken from the prior snapshot, an entry left raw
C11_Witness ==
  /\ pc = "merged"
  /\ Len(data) = 5
  /\ DOMAIN fetched_map = {2, 4}
  /\ data[1] = Rec(1, "alice") /\ data[5] = Rec(5, NoField)
  /\ recovered = 2

\* no id occurs twice in a list of records
UniqueIds(lst) == \A k, m \in 1..Len(lst) : lst[k].id = lst[m].id => k = m

\* C12: the persisted snapshot never holds two records with the same
\* identifier, whatever the runs and the page responses have been.
C12_SnapshotIdsUnique ==
  jsonFile.state = "ok" => UniqueIds(jsonFile.recs)

\* a step in which a non-fatal error happens: a POST of a detail batch is
\* answered with a failure status other than 429 or raises a connection
\* error, or the previous snapshot turns out unreadable (in
\* load_local_history or in analyze_changes)
NonFatalErrorStep ==
  \/ /\ pc = "post"
     /\ resps' # <<>>
     /\ resps'[Len(resps')].status \in {"other", "exception"}
  \/ pc = "details" /\ pc' = "post" /\ jsonFile.state = "corrupt"
  \/ pc = "analyze" /\ analysis' = "unreadable"

\* C13: every non-fatal error (a detail batch abandoned on a non-429 failure
\* status, a connection error during enrichment, an unreadable previous
\* snapshot) puts a line on the log output in the step in which it happens,
\* and the run goes on.
C13_ErrorsLogged ==
  [][NonFatalErrorStep => (console' # console /\ pc' # "done")]_vars

\* the POSTs of the batch started last that ended in a sleep
Slept == {k \in 1..Len(resps) : resps[k].status \in {"429", "exception"}}

\* the loop has left the batch started last
BatchLeft == attempt = 0 /\ i = BATCH_SIZE * Len(batches)

\* C14: a detail batch is posted at most MAX_RETRIES times; a 200 or a status
\* other than 200 and 429 ends its attempts at once, the latter with nothing
\* merged for its members and the batch never posted again; a 429 on attempt
\* index a is followed by a wait of (a + 1) times the base delay; a connection
\* error is followed by a pause of one second and uses up one attempt.
C14_RetryPolicy ==
  (pc \in {"post", "merge", "merged"} /\ batches # <<>>) =>
     LET last == resps[Len(resps)]
     IN /\ Len(resps) \in 1..MAX_RETRIES
        /\ \A k \in 1..(Len(resps) - 1) : k \in Slept
        /\ Len(sleeps) = Cardinality(Slept)
        /\ \A k \in Slept :
             sleeps[k] = IF resps[k].status = "429" THEN k * RATE_LIMIT_DELAY ELSE 1
        /\ last.status \in {"200", "other"} => BatchLeft
        /\ last.status = "other" =>
             Range(batches[Len(batches)]) \cap DOMAIN fetched_map = {}
        /\ Len(resps) = MAX_RETRIES => BatchLeft
        /\ ~BatchLeft =>
             attempt = Len(resps) /\ i = BATCH_SIZE * (Len(batches) - 1)
        /\ IsPrefix(Flatten(batches), user_ids)

\* a batch that met a connection error, then a 429, then a failure status
C14_Witness ==
  /\ pc = "merge"
  /\ Len(resps) = 3
  /\ resps[1].status = "exception" /\ resps[2].status = "429"
  /\ resps[3].status = "other"
  /\ sleeps = <<1, 10>>
  /\ fetched_map = EmptyMap

\* C15: a detail batch that fails does not end the batch loop: when the loop
\* is over every batch has been posted, whatever the earlier batches met; the
\* members of a failed batch have no fresh detail and end up with the name of
\* the prior snapshot or without name fields; fetch_user_details gets to its
\* return with a list of the input's length, never leaving the run.
C15_FailedBatchIsolated ==
  /\ exitCode = -1
  /\ (pc \in {"post", "merge", "merged"} /\ batches # <<>> /\ BatchLeft
        /\ resps[Len(resps)].status # "200") =>
       Range(batches[Len(batches)]) \cap DOMAIN fetched_map = {}
  /\ pc \in {"merge", "merged"} =>
       /\ Flatten(batches) = user_ids
       /\ \A b \in 1..Len(batches) : batches[b] # <<>>
  /\ pc = "merged" =>
       /\ Len(data) = Len(raw_friends.list)
       /\ \A k \in 1..Len(data) :
            LET id == raw_friends.list[k].id
            IN id \notin DOMAIN fetched_map =>
                 IF PriorNames(id) # {}
                 THEN data[k].name \in PriorNames(id)
                 ELSE data[k] = Rec(id, NoField)

\* of three batches the first and the third failed and the second was
\* answered: its members have fresh detail, the others the prior name or none
C15_Witness ==
  /\ pc = "merged"
  /\ Len(batches) = 3
  /\ DOMAIN fetched_map = 51..100
  /\ resps[Len(resps)].status = "other"
  /\ Len(data) = 120
  /\ data[1] = Rec(1, "alice") /\ data[5] = Rec(5, NoField)
  /\ data[51] = Rec(51, "alice") /\ data[120] = Rec(120, NoField)

\* C16: the list fetch_user_details returns has the length of its input and,
\* at every position, the identifier the input has there, whatever the
\* server answered: no entry is added, dropped, duplicated or moved.
C16_SameSequence ==
  pc \in {"merged", "analyze"} =>
     /\ Len(data) = Len(raw_friends.list)
     /\ \A k \in 1..Len(data) : data[k].id = raw_friends.list[k].id

\* 120 entries of which only those with an even id of the first batch got a name
C16_Witness ==
  /\ pc = "merged"
  /\ Len(data) = 120
  /\ DOMAIN fetched_map = {id \in 1..50 : id % 2 = 0}
  /\ data[1] = Rec(1, NoField) /\ data[2] = Rec(2, "alice")
  /\ data[120] = Rec(120, NoField)

\* save_database got past its guard with the list of this run
GuardPassed == SaveRan /\ data # <<>> /\ 5 * CountNameless(data) <= Len(data)

\* C17: past the guard the two writes are guarded one by one: a failed write
\* of the snapshot is reported and the export is still attempted; a failed
\* write of the export, also one caused by records with other fields than
\* the first record, is reported, the run ends normally and the snapshot
\* written before stays.
C17_WritesGuarded ==
  GuardPassed =>
     /\ exitCode = 0
     /\ jsonFile # FileOf(data) => "ERROR Failed to save JSON" \in console
     /\ console \cap {"INFO Database updated", "ERROR Failed to save CSV"} # {}
     /\ ~ExportComplete => "ERROR Failed to save CSV" \in console
     /\ "ERROR Failed to save JSON" \notin console => jsonFile = FileOf(data)

SaveMessages ==
  {"PROTECTION Data corruption detected. Aborting save", "ERROR Failed to save JSON",
   "ERROR Failed to save CSV", "INFO Database updated", "Traceback ValueError"}

\* C18 as stated: an empty enriched list passes the guard and the snapshot is
\* overwritten with the empty record list.
C18_AsStated ==
  (SaveRan /\ data = <<>> /\ NoIoFailure) => jsonFile = FileOf(<<>>)

\* C18 amended: the guard vetoes the write exactly for a non-empty list whose
\* nameless fraction exceeds the threshold; for an empty list save_database
\* returns before the guard and writes nothing, so the snapshot and the
\* export stay as they were.
C18_EmptyListNotSaved ==
  SaveRan =>
     /\ "PROTECTION Data corruption detected. Aborting save" \in console
          <=> (data # <<>> /\ 5 * CountNameless(data) > Len(data))
     /\ data = <<>> =>
          /\ FilesUntouched
          /\ console \cap SaveMessages = {}
          /\ exitCode = 0

\* every friend of the snapshot is gone: reported as unfriended, snapshot kept
C18_Witness ==
  /\ SaveRan /\ data = <<>>
  /\ json0 = FileOf(<<Rec(1, "alice")>>) /\ jsonFile = json0
  /\ Appended = <<LogLine("UNFRIENDED", 1)>>

Vetoed == "PROTECTION Data corruption detected. Aborting save" \in console

\* C19: the two guards are independent in one direction only: no run has its
\* analysis skipped by the analysis guard and its snapshot written all the
\* same (a skipped analysis means a vetoed save, both files as they were),
\* while a run can append change lines to the activity log and then refuse
\* to persist (the witness).
C19_GuardsNested ==
  (SaveRan /\ analysis = "skipped") =>
     /\ Vetoed
     /\ FilesUntouched
     /\ "INFO Database updated" \notin console

\* a run that reported a change in the activity log and refused to persist
C19_Witness ==
  /\ SaveRan /\ analysis = "reported"
  /\ json0.state = "ok"
  /\ Len(logFile) > Len(log0)
  /\ Vetoed /\ FilesUntouched
  /\ 5 * CountNameless(data) > Len(data) /\ 2 * CountNameless(data) <= Len(data)

\* this run and the run before it obtained the same enriched list
SameListAsBefore == Analysed /\ prev_data.ran /\ prev_data.list = data

====
